---- MODULE Spec2Model ----
(***************************************************************************)
(* Model of image-gen-mcp (src/src/index.ts): the tool-call request        *)
(* handler, the generate_image pipeline (model lookup, backend call,       *)
(* per-URL download + compression), and the filename deriver.              *)
(*                                                                         *)
(* Strings are TLA+ strings; a prompt, which the code inspects character   *)
(* by character, is a sequence of one-character strings.                   *)
(***************************************************************************)
EXTENDS Integers, Sequences, FiniteSets, TLC

(***************************************************************************)
(* Bounds of the exploration.                                              *)
(***************************************************************************)
MaxPieces == 5      \* longest prompt of SpecFn, in pieces
MaxUrls == 2        \* longest URL list the backend returns
MaxDepth == 2       \* deepest chain of downloadAndCompressImage invocations

(***************************************************************************)
(* Program constants.                                                      *)
(***************************************************************************)
DEFAULT_COMPRESSION_QUALITY == 85
DEFAULT_MODEL == "imagen-3"
OUTPUT_DIR == "generated-images"

Min(a, b) == IF a < b THEN a ELSE b
Max(a, b) == IF a > b THEN a ELSE b

(***************************************************************************)
(* FilenameDeriver: generateFilenameFromPrompt                             *)
(***************************************************************************)
stopWords ==
  { "a", "an", "the", "and", "or", "but", "in", "on", "at", "to", "for",
    "of", "with", "by", "from", "as", "is", "was", "are", "were", "been",
    "be", "have", "has", "had", "do", "does", "did", "will", "would", "could",
    "should", "may", "might", "must", "shall", "can", "need", "it", "its",
    "this", "that", "these", "those", "i", "you", "he", "she", "we", "they",
    "what", "which", "who", "where", "when", "why", "how", "all", "each",
    "every", "both", "few", "more", "most", "other", "some", "such", "no",
    "not", "only", "own", "same", "so", "than", "too", "very", "just", "also",
    "image", "picture", "photo", "generate", "create", "make", "show" }

\* The characters the model's prompts are written in.
LowerLetters == { "a", "c", "e", "h", "i", "m", "p", "s", "t" }
Digits == { "0", "1" }
Whitespace == { " ", "\t" }

\* String.prototype.toLowerCase, on one character
toLowerCase(c) ==
  CASE c = "C" -> "c"
    [] c = "T" -> "t"
    [] c = "H" -> "h"
    [] OTHER -> c

\* .replace(/["']/g, " ")
replaceQuotes(c) == IF c \in { "\"", "'" } THEN " " ELSE c

\* .replace(/[^a-z0-9\s-]/g, " ")
replaceOthers(c) ==
  IF c \in LowerLetters \cup Digits \cup Whitespace \cup { "-" } THEN c ELSE " "

\* the three character-wise steps of the chain, over the whole prompt
normalize(prompt) ==
  [k \in DOMAIN prompt |-> replaceOthers(replaceQuotes(toLowerCase(prompt[k])))]

\* .split(/\s+/): the pieces between maximal runs of whitespace; a leading or
\* trailing run leaves an empty piece, and the empty string splits to <<"">>.
RECURSIVE splitFrom(_, _, _, _)
splitFrom(s, k, cur, acc) ==
  IF k > Len(s) THEN Append(acc, cur)
  ELSE IF s[k] \in Whitespace
       THEN IF k > 1 /\ s[k - 1] \in Whitespace
            THEN splitFrom(s, k + 1, cur, acc)
            ELSE splitFrom(s, k + 1, "", Append(acc, cur))
       ELSE splitFrom(s, k + 1, cur \o s[k], acc)

split(s) == splitFrom(s, 1, "", <<>>)

\* .filter(word => word.length > 2 && !stopWords.has(word))
keepWord(word) == Len(word) > 2 /\ word \notin stopWords

filterWords(ws) == SelectSeq(ws, keepWord)

\* (slice5 keeping every word)
sliceAll(ws) == ws

\* .slice(0, 5)
slice5(ws) == SubSeq(ws, 1, Min(5, Len(ws)))

\* Array.prototype.join
RECURSIVE join(_, _)
join(ws, sep) ==
  IF Len(ws) = 0 THEN ""
  ELSE IF Len(ws) = 1 THEN ws[1]
  ELSE ws[1] \o sep \o join(Tail(ws), sep)

\* (promptWords without the fallback of lines 215-217)
promptWordsNoFallback(prompt) == slice5(filterWords(split(normalize(prompt))))

\* lines 207-217: the surviving words, "image" when none survives
promptWords(prompt) ==
  LET words == slice5(filterWords(split(normalize(prompt))))
  IN  IF Len(words) = 0 THEN << "image" >> ELSE words

\* (generateFilenameFromPrompt without the index suffix)
generateFilenameUnindexed(prompt, index, timestamp) ==
  join(promptWords(prompt), "_") \o "_" \o ToString(timestamp)

\* (generateFilenameFromPrompt without the timestamp)
generateFilenameUnstamped(prompt, index, timestamp) ==
  join(promptWords(prompt), "_") \o
    (IF index > 0 THEN "_" \o ToString(index + 1) ELSE "")

\* lines 219-223, with Date.now() passed in as timestamp
generateFilenameFromPrompt(prompt, index, timestamp) ==
  LET slug == join(promptWords(prompt), "_")
      indexSuffix == IF index > 0 THEN "_" \o ToString(index + 1) ELSE ""
  IN  slug \o "_" \o ToString(timestamp) \o indexSuffix

(***************************************************************************)
(* ModelRegistry: MODELS (lines 43-103)                                    *)
(***************************************************************************)
modelKeys ==
  << "imagen-3", "imagen-3-fast", "nano-banana-pro", "flux-schnell",
     "flux-dev", "flux-pro", "flux-redux" >>

RegistryKeys == { modelKeys[k] : k \in DOMAIN modelKeys }

MODELS ==
  [ key \in RegistryKeys |->
      CASE key = "imagen-3" ->
             [ id |-> "google-deepmind/imagen-3.0-generate-001",
               name |-> "Google Imagen 3", supportsReferenceImage |-> FALSE,
               cost |-> "$0.04" ]
        [] key = "imagen-3-fast" ->
             [ id |-> "google-deepmind/imagen-3.0-fast-generate-001",
               name |-> "Google Imagen 3 Fast", supportsReferenceImage |-> FALSE,
               cost |-> "$0.02" ]
        [] key = "nano-banana-pro" ->
             [ id |-> "google-deepmind/nano-banana-pro",
               name |-> "Nano Banana Pro", supportsReferenceImage |-> TRUE,
               cost |-> "$0.05" ]
        [] key = "flux-schnell" ->
             [ id |-> "black-forest-labs/flux-schnell",
               name |-> "Flux Schnell", supportsReferenceImage |-> FALSE,
               cost |-> "$0.003" ]
        [] key = "flux-dev" ->
             [ id |-> "black-forest-labs/flux-dev",
               name |-> "Flux Dev", supportsReferenceImage |-> FALSE,
               cost |-> "$0.025" ]
        [] key = "flux-pro" ->
             [ id |-> "black-forest-labs/flux-1.1-pro",
               name |-> "Flux 1.1 Pro", supportsReferenceImage |-> FALSE,
               cost |-> "$0.04" ]
        [] key = "flux-redux" ->
             [ id |-> "black-forest-labs/flux-redux-dev",
               name |-> "Flux Redux", supportsReferenceImage |-> TRUE,
               cost |-> "$0.025" ] ]

\* MODELS is an object literal: besides its own keys, a lookup MODELS[key]
\* finds the members every object inherits from Object.prototype.
ObjectPrototypeKeys ==
  { "constructor", "toString", "valueOf", "hasOwnProperty", "__proto__" }

\* What an inherited member looks like through the ModelConfig fields the
\* handler reads: truthy, with every ModelConfig field undefined.
InheritedMember ==
  [ id |-> "undefined", name |-> "inherited", supportsReferenceImage |-> FALSE,
    cost |-> "undefined" ]

\* `const modelConfig = MODELS[model]; if (!modelConfig)` (lines 556-557):
\* is the looked-up value truthy
modelLookupTruthy(model) == model \in RegistryKeys \cup ObjectPrototypeKeys

\* the value of MODELS[model] when it is truthy
modelLookup(model) ==
  IF model \in RegistryKeys THEN MODELS[model] ELSE InheritedMember

(***************************************************************************)
(* Values                                                                  *)
(***************************************************************************)
\* An optional argument is <<>> when absent and <<v>> when given.
WithDefault(opt, d) == IF opt = <<>> THEN d ELSE opt[1]

\* JavaScript truthiness of an optional string argument
Truthy(opt) == opt # <<>> /\ opt[1] # ""

\* path.join(dir, name)
pathJoin(dir, name) == dir \o "/" \o name

\* Math.round((1 - compressedSize / originalSize) * 100), originalSize > 0:
\* Math.round rounds halves towards +Infinity.
savedPercent(originalSize, compressedSize) ==
  (200 * (originalSize - compressedSize) + originalSize) \div (2 * originalSize)

\* `${(size / 1024).toFixed(1)} KB`
formatKB(size) ==
  LET tenths == (20 * size + 1024) \div 2048
  IN  ToString(tenths \div 10) \o "." \o ToString(tenths % 10) \o " KB"

\* `${savedPercent}%`
formatPercent(p) ==
  (IF p < 0 THEN "-" \o ToString(0 - p) ELSE ToString(p)) \o "%"

(***************************************************************************)
(* State                                                                   *)
(***************************************************************************)
VARIABLES
  server,     \* "starting" until main() has connected the transport
  apiToken,   \* is process.env.REPLICATE_API_TOKEN set
  files,      \* the file system: path |-> content
  pc,         \* where the tool-call handler is
  call,       \* the tool call being handled: its name and arguments
  gen,        \* the locals of the generate_image case
  frames,     \* the invocations of downloadAndCompressImage: those in flight,
              \* and the one whose failure ended the call
  result,     \* what the handler returned
  obs,        \* what the current call has done to its collaborators
  fnIn,       \* SpecFn: the input of generateFilenameFromPrompt
  fnOut       \* SpecFn: its output

mainVars == << server, apiToken, files, pc, call, gen, frames, result, obs >>
fnVars == << fnIn, fnOut >>
vars == << server, apiToken, files, pc, call, gen, frames, result, obs,
           fnIn, fnOut >>

(***************************************************************************)
(* The environment the model draws from                                    *)
(***************************************************************************)
\* a local path, kept in the parts path.dirname/basename/extname cut it into
Path(dir, base, ext) == [ dir |-> dir, base |-> base, ext |-> ext ]
EmptyPath == Path("", "", "")
pathStr(p) == IF p.dir = "" THEN p.base \o p.ext ELSE p.dir \o "/" \o p.base \o p.ext

RefPng == Path("/in", "ref", ".png")
PhotoPng == Path("/in", "photo", ".png")
NotesTxt == Path("/in", "notes", ".txt")
MissingJpg == Path("/nonexistent", "image", ".jpg")

\* the birthtime of a file the current call creates: later than that of
\* every file that was there before the call
CallTime == 200

\* a file: its content, and the birthtime fs.statSync reports for it
FileAt(fmt, size, valid, src, birthtime) ==
  [ fmt |-> fmt, size |-> size, valid |-> valid, src |-> src,
    birthtime |-> birthtime ]

\* the content of a file that is being written now
Content(fmt, size, valid, src) == FileAt(fmt, size, valid, src, CallTime)

\* The file system maps a path (in its parts) to the content of the file there.
InitialFiles ==
  (RefPng :> FileAt("png", 4096, TRUE, "local", 10)) @@
  (PhotoPng :> FileAt("png", 3000, TRUE, "local", 20)) @@
  (NotesTxt :> FileAt("text", 100, FALSE, "local", 30))

exists(path) == path \in DOMAIN files

\* the same with what earlier runs left in the output directory
EarlierFiles ==
  (Path(OUTPUT_DIR, "cat_100", ".jpg") :> FileAt("jpeg", 900, TRUE, "earlier", 100)) @@
  (Path(OUTPUT_DIR, "temp_100_k3x", "") :> FileAt("raw", 512, FALSE, "earlier", 100)) @@
  (Path(OUTPUT_DIR, "dog_150", ".PNG") :> FileAt("png", 5000, TRUE, "earlier", 150)) @@
  (Path(OUTPUT_DIR, "old", ".webp") :> FileAt("webp", 700, TRUE, "earlier", 100)) @@
  (Path(OUTPUT_DIR, "cat_100.jpg", ".bak") :> FileAt("jpeg", 900, TRUE, "earlier", 160)) @@
  InitialFiles

\* the file system after writing `content` at `path`: a file that was there
\* is written over and keeps its birthtime
writeFile(fs, path, content) ==
  [ q \in DOMAIN fs \cup { path } |->
      IF q # path THEN fs[q]
      ELSE IF path \in DOMAIN fs
           THEN [ content EXCEPT !.birthtime = fs[path].birthtime ]
           ELSE content ]

\* the file system after removing `path`
unlink(fs, path) == [ q \in DOMAIN fs \ { path } |-> fs[q] ]

\* path.join(OUTPUT_DIR, filename) for a generated name: its base holds no dot
outputPath(base, ext) == Path(OUTPUT_DIR, base, ext)

\* values Date.now() returns
Timestamps == { 100, 101 }

\* values of `${Date.now()}_${Math.random().toString(36).slice(2)}`
TempTokens == { "100_k3x", "100_q7z", "101_m1b", "101_w5d", "101_c9e", "101_t2a" }

\* the URLs the backend hands out, and where their server may redirect to
URLS == { "https://cdn.example/a", "http://cdn.example/b" }
RedirectTargets == { "https://files.example/moved" }

\* what an HTTP server answers a GET with
Bodies == { [ size |-> 2048, valid |-> TRUE ], [ size |-> 512, valid |-> FALSE ] }
NoBody == [ size |-> 0, valid |-> FALSE ]
Responses ==
  { [ status |-> 200, location |-> <<>>, body |-> b ] : b \in Bodies } \cup
  { [ status |-> st, location |-> << u >>, body |-> NoBody ] :
      st \in { 301, 302 }, u \in RedirectTargets } \cup
  { [ status |-> st, location |-> <<>>, body |-> NoBody ] : st \in { 302, 404 } }

\* The byte length of the JPEG sharp's encoder writes: the encoder is a fixed
\* function of its input and the quality, here growing with both.
encodedSize(size, quality) == (size * quality) \div 80

\* prompts of the tool calls
CatPrompt == << "a", " ", "C", "a", "t" >>
BarePrompt == << "T", "h", "e", "!" >>
PromptInputs == { <<>>, << CatPrompt >>, << BarePrompt >> }
ModelInputs == { <<>>, << "flux-redux" >>, << "unknown-model" >>, << "constructor" >> }
ReferenceInputs == { <<>>, << EmptyPath >>, << RefPng >>, << MissingJpg >> }
QualityInputs == { <<>>, << 60 >> }
NumOutputsInputs == { <<>>, << -2 >>, << 0 >>, << 3 >>, << 9 >> }

\* The arguments of the generate_image calls: a plain call with one or two
\* of its arguments varied at a time (the empty string as reference image
\* with the default model only).
PlainArgs ==
  [ prompt |-> << CatPrompt >>, model |-> <<>>, reference_image |-> <<>>,
    aspect_ratio |-> <<>>, compression_quality |-> <<>>, num_outputs |-> <<>>,
    prompt_strength |-> <<>> ]

GenerateArgs ==
  { [ PlainArgs EXCEPT !.model = m, !.reference_image = r ] :
      m \in ModelInputs, r \in ReferenceInputs \ { << EmptyPath >> } } \cup
  { [ PlainArgs EXCEPT !.reference_image = << EmptyPath >> ] } \cup
  { [ PlainArgs EXCEPT !.prompt = p, !.compression_quality = q ] :
      p \in PromptInputs, q \in QualityInputs } \cup
  { [ PlainArgs EXCEPT !.num_outputs = n ] : n \in NumOutputsInputs }

\* what replicate.run resolves to: one URL or an array of URLs
RECURSIVE SeqsUpTo(_, _)
SeqsUpTo(S, n) ==
  IF n = 0 THEN { <<>> }
  ELSE LET shorter == SeqsUpTo(S, n - 1)
       IN  shorter \cup { Append(q, x) : q \in shorter, x \in S }

\* (in an array, neighbouring outputs have different URLs, and the first is
\* the http one)
BackendOutputs ==
  { [ isArray |-> FALSE, items |-> << u >> ] : u \in URLS } \cup
  { [ isArray |-> TRUE, items |-> q ] :
      q \in { r \in SeqsUpTo(URLS, MaxUrls) :
                /\ \A k \in 1..(Len(r) - 1) : r[k] # r[k + 1]
                /\ Len(r) > 0 => r[1] = "http://cdn.example/b" } }

NoCall == [ name |-> "", hasArgs |-> FALSE ]
NoGen == [ active |-> FALSE ]
NoResult == [ pending |-> TRUE ]
NoObs ==
  [ tokenReads |-> 0, backendCalls |-> <<>>, refReads |-> <<>>,
    requests |-> <<>>, written |-> {}, unlinks |-> {} ]
NoFn == [ set |-> FALSE ]
NoOut == [ timestamp |-> 0, name |-> "" ]

(***************************************************************************)
(* The catch block of the handler (lines 777-791)                          *)
(***************************************************************************)
\* (catchError with `isError: true` left out)
catchErrorUnflagged(message) ==
  [ isError |-> FALSE,
    text |-> [ success |-> FALSE, error |-> message ] ]

\* An error is its message, kept as the fragments of the template that built it.
catchError(message) ==
  [ isError |-> TRUE,
    text |-> [ success |-> FALSE, error |-> message ] ]

\* a returned (not thrown) result: content[0].text is the JSON of `doc`
returned(doc) == [ isError |-> FALSE, text |-> doc ]

Mentions(message, fragment) == \E k \in DOMAIN message : message[k] = fragment

(***************************************************************************)
(* Error messages                                                          *)
(***************************************************************************)
UnknownModelError(model) ==
  << "Unknown model", ": ", model, ". Available models: ", join(modelKeys, ", ") >>

ReferenceUnsupportedError(model) ==
  << "Model ", model, " does not support reference images",
     ". Use flux-redux or nano-banana-pro instead." >>

TokenRequiredError ==
  << "REPLICATE_API_TOKEN environment variable is required. ",
     "Get your API token from https://replicate.com/account/api-tokens" >>

ReferenceNotFoundError(path) == << "Reference image ", "not found", ": ", pathStr(path) >>
\* (InputNotFoundError with another wording)
InputMissingError(path) == << "Input image ", "is missing", ": ", pathStr(path) >>
InputNotFoundError(path) == << "Input image ", "not found", ": ", pathStr(path) >>
ImageNotFoundError(path) == << "Image ", "not found", ": ", pathStr(path) >>
UnknownToolError(name) == << "Unknown tool", ": ", name >>
\* (HttpStatusError without the status code)
HttpStatusErrorBare(status) == << "Failed to download image" >>

HttpStatusError(status) == << "Failed to download image: HTTP ", ToString(status) >>
TimeoutError == << "Download timeout" >>
DestructureError == << "Cannot destructure property of 'args' as it is undefined." >>
PromptTypeError == << "Cannot read properties of undefined (reading 'toLowerCase')" >>
PathTypeError == << "The \"path\" argument must be of type string. Received undefined" >>
StatError(path) == << "ENOENT: no such file or directory, stat '", pathStr(path), "'" >>
SharpInputError == << "Input file contains unsupported image format" >>
SharpMissingError(path) == << "Input file is missing: ", pathStr(path) >>
SharpSameFileError == << "Cannot use same file for input and output" >>
StreamWriteError == << "ENOSPC: no space left on device, write" >>
ConnectionError == << "socket hang up" >>
BackendError == << "Prediction failed" >>

(***************************************************************************)
(* Initial state and startup                                               *)
(***************************************************************************)
Init ==
  /\ server = "starting"
  /\ apiToken \in BOOLEAN
  /\ files \in { InitialFiles, EarlierFiles }
  /\ pc = "idle"
  /\ call = NoCall
  /\ gen = NoGen
  /\ frames = {}
  /\ result = NoResult
  /\ obs = NoObs
  /\ fnIn = NoFn
  /\ fnOut = NoOut

\* main() (lines 795-807): connect the transport; from then on tool calls are served
Main ==
  /\ server = "starting"
  /\ server' = "running"
  /\ UNCHANGED << apiToken, files, pc, call, gen, frames, result, obs, fnIn, fnOut >>

\* a tool call can be dispatched to the handler
CanCall ==
  /\ server = "running"
  /\ pc = "idle"

\* the handler ends: it returns `r`
Finish(r) ==
  /\ pc' = "done"
  /\ result' = r

\* the handler is entered for tool `name`
Enter(name, hasArgs, args) ==
  call' = [ name |-> name, hasArgs |-> hasArgs, args |-> args ]

(***************************************************************************)
(* The cases of the handler that do not suspend                            *)
(***************************************************************************)
\* case "list_models" (lines 708-729)
CallListModels ==
  /\ CanCall
  /\ Enter("list_models", FALSE, <<>>)
  /\ Finish(returned(
       [ default_model |-> DEFAULT_MODEL,
         models |-> [ k \in DOMAIN modelKeys |->
                        [ key |-> modelKeys[k],
                          name |-> MODELS[modelKeys[k]].name,
                          cost |-> MODELS[modelKeys[k]].cost,
                          supports_reference_image |->
                            MODELS[modelKeys[k]].supportsReferenceImage ] ] ]))
  /\ gen' = NoGen /\ obs' = NoObs
  /\ UNCHANGED << server, apiToken, files, frames, fnIn, fnOut >>

\* case "get_output_directory" (lines 760-772); the directory is made at load
CallGetOutputDirectory ==
  /\ CanCall
  /\ Enter("get_output_directory", FALSE, <<>>)
  /\ Finish(returned([ output_directory |-> OUTPUT_DIR, exists |-> TRUE ]))
  /\ gen' = NoGen /\ obs' = NoObs
  /\ UNCHANGED << server, apiToken, files, frames, fnIn, fnOut >>

\* /\.(png|jpg|jpeg|webp|gif)$/i: the i flag makes the match ignore case
lowerExt(ext) ==
  CASE ext = ".PNG" -> ".png"
    [] ext = ".JPG" -> ".jpg"
    [] OTHER -> ext

isImageName(path) ==
  lowerExt(path.ext) \in { ".png", ".jpg", ".jpeg", ".webp", ".gif" }

\* the orders fs.readdirSync may return the names of a directory in
RECURSIVE Perms(_)
Perms(S) ==
  IF S = {} THEN { <<>> }
  ELSE UNION { { << x >> \o q : q \in Perms(S \ { x }) } : x \in S }

readdirSync(dir) == Perms({ f \in DOMAIN files : f.dir = dir })

\* lines 734-743: the entry of one file
listEntry(f) ==
  [ filename |-> f.base \o f.ext,
    path |-> pathJoin(OUTPUT_DIR, f.base \o f.ext),
    size |-> formatKB(files[f].size),
    created |-> files[f].birthtime ]

\* (sortNewestFirst left out: the entries stay in directory order)
keepOrder(entries) == entries

\* .sort((a, b) => new Date(b.created) - new Date(a.created)), line 744:
\* a stable sort, entries of equal time keep their order
RECURSIVE sortNewestFirst(_)
sortNewestFirst(entries) ==
  IF entries = <<>> THEN <<>>
  ELSE LET n == Len(entries)
           last == entries[n]
           sorted == sortNewestFirst(SubSeq(entries, 1, n - 1))
           k == Cardinality({ j \in DOMAIN sorted : sorted[j].created >= last.created })
       IN  SubSeq(sorted, 1, k) \o << last >> \o SubSeq(sorted, k + 1, Len(sorted))

\* case "list_generated_images" (lines 731-758)
CallListGeneratedImages ==
  /\ CanCall
  /\ Enter("list_generated_images", FALSE, <<>>)
  /\ \E names \in readdirSync(OUTPUT_DIR) :
       LET kept == SelectSeq(names, isImageName)
           listed == sortNewestFirst([ k \in DOMAIN kept |-> listEntry(kept[k]) ])
       IN  Finish(returned(
             [ output_directory |-> OUTPUT_DIR,
               image_count |-> Len(listed),
               images |-> listed ]))
  /\ gen' = NoGen /\ obs' = NoObs
  /\ UNCHANGED << server, apiToken, files, frames, fnIn, fnOut >>

\* default: (lines 774-775)
UnknownToolNames == { "unknown_tool" }

CallUnknownTool ==
  /\ CanCall
  /\ \E name \in UnknownToolNames, hasArgs \in BOOLEAN :
       /\ Enter(name, hasArgs, <<>>)
       /\ Finish(catchError(UnknownToolError(name)))
  /\ gen' = NoGen /\ obs' = NoObs
  /\ UNCHANGED << server, apiToken, files, frames, fnIn, fnOut >>

\* getImageMetadata (lines 357-378) under case "get_image_info" (lines 687-706)
ImagePathInputs == { <<>>, << PhotoPng >>, << NotesTxt >>, << MissingJpg >> }

CallGetImageInfo ==
  /\ CanCall
  /\ \E hasArgs \in BOOLEAN, image_path \in ImagePathInputs :
       /\ Enter("get_image_info", hasArgs, [ image_path |-> image_path ])
       /\ IF ~hasArgs THEN Finish(catchError(DestructureError))
          ELSE IF image_path = <<>> THEN Finish(catchError(PathTypeError))
          ELSE IF ~exists(image_path[1])
               THEN Finish(catchError(ImageNotFoundError(image_path[1])))
          ELSE IF ~files[image_path[1]].valid
               THEN Finish(catchError(SharpInputError))
          ELSE Finish(returned(
                 [ path |-> pathStr(image_path[1]),
                   format |-> files[image_path[1]].fmt,
                   size |-> formatKB(files[image_path[1]].size) ]))
  /\ gen' = NoGen /\ obs' = NoObs
  /\ UNCHANGED << server, apiToken, files, frames, fnIn, fnOut >>

\* the JPEG sharp writes from the file at `input`
jpegOf(input, size) == Content("jpeg", size, TRUE, files[input].src)

\* compressImage (lines 233-277) under case "compress_image" (lines 643-685)
CompressInputs == { <<>>, << PhotoPng >>, << NotesTxt >>, << MissingJpg >> }
CompressOutputs ==
  { <<>>, << EmptyPath >>, << Path("/in", "small", ".jpg") >>, << PhotoPng >>,
    << Path("/nonexistent", "small", ".jpg") >> }
CompressQualities == { <<>>, << 1 >>, << 60 >>, << 100 >> }

\* the directories there are: a file can only be created in one of them
ExistingDirs == { "/in", OUTPUT_DIR }

SharpOutputError(path) == << "unable to open for write: ", pathStr(path) >>

\* (defaultOutputPath without the "_compressed" suffix)
defaultOutputPathUnsuffixed(input_path) == Path(input_path.dir, input_path.base, ".jpg")

\* lines 658-662: dirname, basename without the extension, `${base}_compressed.jpg`
defaultOutputPath(input_path) ==
  Path(input_path.dir, input_path.base \o "_compressed", ".jpg")

\* compressImage(inputPath, outputPath, {quality}) (lines 233-277): the error
\* thrown, if any, and the file system it leaves.  sharp's toFile refuses an
\* output that is its input, rejects an input it cannot decode and an output
\* it cannot create; the sizes are read with fs.statSync, the compressed one
\* from the output file after it was written (lines 275-276).
compressImage(input, output, quality) ==
  LET written == writeFile(files, output,
                           jpegOf(input, encodedSize(files[input].size, quality)))
  IN  IF ~exists(input)
      THEN [ threw |-> << InputNotFoundError(input) >>, files |-> files ]
      ELSE IF output = input
      THEN [ threw |-> << SharpSameFileError >>, files |-> files ]
      ELSE IF ~files[input].valid
      THEN [ threw |-> << SharpInputError >>, files |-> files ]
      ELSE IF output.dir \notin ExistingDirs
      THEN [ threw |-> << SharpOutputError(output) >>, files |-> files ]
      ELSE [ threw |-> <<>>, files |-> written,
             originalSize |-> files[input].size,
             compressedSize |-> written[output].size ]

CallCompressImage ==
  /\ CanCall
  /\ \E hasArgs \in BOOLEAN, input_path \in CompressInputs,
        output_path \in CompressOutputs, quality \in CompressQualities :
       /\ Enter("compress_image", hasArgs,
                [ input_path |-> input_path, output_path |-> output_path,
                  quality |-> quality ])
       /\ IF ~hasArgs
          THEN Finish(catchError(DestructureError)) /\ files' = files
          ELSE IF input_path = <<>>
          THEN Finish(catchError(PathTypeError)) /\ files' = files
          ELSE LET input == input_path[1]
                   finalOutputPath ==
                     IF Truthy(<< pathStr(WithDefault(output_path, EmptyPath)) >>)
                     THEN output_path[1]
                     ELSE defaultOutputPath(input)
                   done == compressImage(input, finalOutputPath,
                             WithDefault(quality, DEFAULT_COMPRESSION_QUALITY))
               IN  /\ files' = done.files
                   /\ IF done.threw # <<>>
                      THEN Finish(catchError(done.threw[1]))
                      ELSE Finish(returned(
                             [ success |-> TRUE,
                               input_path |-> pathStr(input),
                               output_path |-> pathStr(finalOutputPath),
                               original_size |-> formatKB(done.originalSize),
                               compressed_size |-> formatKB(done.compressedSize),
                               saved |-> formatPercent(
                                 savedPercent(done.originalSize, done.compressedSize)) ]))
  /\ gen' = NoGen /\ obs' = NoObs
  /\ UNCHANGED << server, apiToken, frames, fnIn, fnOut >>

(***************************************************************************)
(* case "generate_image" (lines 536-641): up to the backend call           *)
(***************************************************************************)
\* (tokenMissing with the check left out)
tokenUnchecked == FALSE

\* getReplicateClient (lines 113-122) throws
tokenMissing == ~apiToken

\* (referenceRejected with the check left out)
referenceAccepted(referenceSet, modelConfig) == FALSE

\* `reference_image && !modelConfig.supportsReferenceImage` (line 562)
referenceRejected(referenceSet, modelConfig) ==
  referenceSet /\ ~modelConfig.supportsReferenceImage

\* (clampOutputs without the lower bound)
clampOutputsUpperOnly(num_outputs) == Min(num_outputs, 4)

\* Math.min(Math.max(num_outputs, 1), 4) (line 574)
clampOutputs(num_outputs) == Min(Max(num_outputs, 1), 4)

\* fileToDataUri (lines 169-189): the MIME type by extension, and the bytes
mimeType(ext) ==
  CASE ext \in { ".jpg", ".jpeg" } -> "image/jpeg"
    [] ext = ".webp" -> "image/webp"
    [] ext = ".gif" -> "image/gif"
    [] OTHER -> "image/png"

fileToDataUri(path) == << "data:", mimeType(path.ext), ";base64,", pathStr(path) >>

\* Lines 537-588 in order. The outcome: the error thrown, if any; what was
\* done to the collaborators on the way; the call replicate.run was given.
generateStart(args) ==
  LET model == WithDefault(args.model, DEFAULT_MODEL)
      referenceSet == Truthy(<< pathStr(WithDefault(args.reference_image, EmptyPath)) >>)
      modelConfig == modelLookup(model)
      \* line 578: `reference_image && modelConfig.supportsReferenceImage`
      withReference == referenceSet /\ modelConfig.supportsReferenceImage
      input == [ prompt |-> args.prompt,
                 aspect_ratio |-> WithDefault(args.aspect_ratio, "1:1"),
                 num_outputs |-> clampOutputs(WithDefault(args.num_outputs, 1)),
                 image |-> IF withReference
                           THEN << fileToDataUri(args.reference_image[1]) >>
                           ELSE <<>>,
                 prompt_strength |-> IF withReference
                                     THEN << WithDefault(args.prompt_strength, "0.8") >>
                                     ELSE <<>> ]
  IN  IF ~modelLookupTruthy(model)
      THEN [ threw |-> << UnknownModelError(model) >>, obs |-> NoObs ]
      ELSE IF referenceRejected(referenceSet, modelConfig)
      THEN [ threw |-> << ReferenceUnsupportedError(model) >>, obs |-> NoObs ]
      ELSE IF tokenMissing
      THEN [ threw |-> << TokenRequiredError >>,
             obs |-> [ NoObs EXCEPT !.tokenReads = 1 ] ]
      ELSE IF withReference /\ ~exists(args.reference_image[1])
      THEN [ threw |-> << ReferenceNotFoundError(args.reference_image[1]) >>,
             obs |-> [ NoObs EXCEPT !.tokenReads = 1,
                                    !.refReads = << args.reference_image[1] >> ] ]
      ELSE [ threw |-> <<>>,
             obs |-> [ NoObs EXCEPT
                         !.tokenReads = 1,
                         !.refReads = IF withReference
                                      THEN << args.reference_image[1] >> ELSE <<>>,
                         !.backendCalls =
                           << [ id |-> modelConfig.id, input |-> input ] >> ] ]

CallGenerateImage ==
  /\ CanCall
  /\ \E hasArgs \in BOOLEAN, args \in GenerateArgs :
       /\ Enter("generate_image", hasArgs, args)
       /\ IF ~hasArgs
          THEN /\ Finish(catchError(DestructureError))
               /\ gen' = NoGen /\ obs' = NoObs
          ELSE LET start == generateStart(args)
               IN  /\ obs' = start.obs
                   /\ IF start.threw # <<>>
                      THEN /\ Finish(catchError(start.threw[1]))
                           /\ gen' = NoGen
                      ELSE /\ pc' = "backend"
                           /\ result' = NoResult
                           /\ gen' = [ active |-> TRUE,
                                       prompt |-> args.prompt,
                                       model |-> WithDefault(args.model, DEFAULT_MODEL),
                                       hadReference |->
                                         Truthy(<< pathStr(WithDefault(
                                           args.reference_image, EmptyPath)) >>),
                                       quality |-> WithDefault(args.compression_quality,
                                                               DEFAULT_COMPRESSION_QUALITY),
                                       output |-> <<>>, urls |-> <<>>, i |-> 0,
                                       filenames |-> <<>>, results |-> <<>> ]
  /\ UNCHANGED << server, apiToken, files, frames, fnIn, fnOut >>

\* lines 591-593: one URL or an array of URLs, as an array
normalizeOutput(output) ==
  IF output.isArray THEN output.items ELSE << output.items[1] >>

\* replicate.run resolves (lines 585-601)
BackendReturn ==
  /\ pc = "backend"
  /\ \E output \in BackendOutputs :
       gen' = [ gen EXCEPT !.output = << output >>,
                           !.urls = normalizeOutput(output) ]
  /\ pc' = "loop"
  /\ UNCHANGED << server, apiToken, files, call, frames, result, obs, fnIn, fnOut >>

\* replicate.run rejects: the catch block takes it
BackendFail ==
  /\ pc = "backend"
  /\ Finish(catchError(BackendError))
  /\ UNCHANGED << server, apiToken, files, call, gen, frames, obs, fnIn, fnOut >>

(***************************************************************************)
(* downloadAndCompressImage (lines 280-354)                                *)
(*                                                                         *)
(* An invocation is a frame.  Frame <<n, 1>> is the one the handler awaits *)
(* for the n-th URL; frame <<n, d + 1>> is the invocation frame <<n, d>>   *)
(* made on a redirect.                                                     *)
(***************************************************************************)
\* `temp_${Date.now()}_${Math.random().toString(36).slice(2)}` (line 286)
tempFilename(token) == "temp_" \o token

\* The clock and Math.random() together do not repeat a name that a file or
\* an invocation still has.
freshTokens ==
  { t \in TempTokens :
      /\ ~exists(outputPath(tempFilename(t), ""))
      /\ \A f \in frames : f.temp # outputPath(tempFilename(t), "") }

freshToken == CHOOSE t \in freshTokens : TRUE

\* lines 285-294: the paths, and the GET request issued
newFrame(id, url, base, quality, token) ==
  [ id |-> id, url |-> url, base |-> base, quality |-> quality,
    temp |-> outputPath(tempFilename(token), ""),
    final |-> outputPath(base, ".jpg"),
    req |-> "sent",           \* "sent", "responded", "failed", "destroyed", "closed"
    stream |-> "none",        \* "none", "open", "finished", "errored"
    status |-> 0,             \* response.statusCode of a response that was not
                              \* followed; 0 before it, and when it was followed
                              \* (301 and 302 are followed alike)
    location |-> <<>>,        \* response.headers.location
    body |-> NoBody,
    promise |-> "pending",    \* "pending", "resolved", "rejected"
    err |-> <<>>,
    child |-> FALSE,          \* waiting for the invocation made on a redirect
    st |-> "downloading",     \* "downloading", "compressing", "returned", "threw"
    originalSize |-> 0,
    compressedSize |-> 0 ]

\* (reject where a later rejection replaces the outcome)
rejectOverwrite(f, err) == [ f EXCEPT !.promise = "rejected", !.err = err ]

\* resolve() and reject(err) of the download promise: the first one wins
resolve(f) == IF f.promise = "pending" THEN [ f EXCEPT !.promise = "resolved" ] ELSE f

reject(f, err) ==
  IF f.promise = "pending" THEN [ f EXCEPT !.promise = "rejected", !.err = err ] ELSE f

Settled(f) == f.st \in { "returned", "threw" }

HasParent(f) == \E g \in frames : g.id = << f.id[1], f.id[2] - 1 >>

\* Events can still arrive for an invocation that has returned or thrown:
\* its file stream is open, or its request was destroyed and the socket has
\* yet to close.
Lingering(f) == f.stream = "open" \/ f.req = "destroyed"

\* somebody waits for the outcome of the invocation
Awaited(f) == (f.id[2] = 1 /\ pc = "await") \/ HasParent(f)

\* the invocation whose failure ended the call
OnRecord(f) == pc = "done" /\ gen # NoGen /\ f.id = << gen.i + 1, 1 >>

\* The frames after f became g: an invocation nobody awaits any more is
\* dropped once it has returned or thrown and nothing can arrive for it.
Replace(f, g) ==
  IF Settled(g) /\ ~Awaited(f) /\ ~Lingering(g) /\ ~OnRecord(f)
  THEN frames \ { f }
  ELSE (frames \ { f }) \cup { g }

\* an event on the request can still change something
Live(f) == f.promise = "pending" \/ (f.stream = "open" /\ f.req = "responded")

\* A continuation is due: promise reactions run before the next event of the
\* event loop is taken.
ContinuationDue ==
  \/ pc = "loop"
  \/ \E f \in frames :
       \/ f.st = "downloading" /\ f.promise # "pending"
       \/ Settled(f) /\ f.id[2] = 1 /\ pc = "await"
       \/ Settled(f) /\ \E g \in frames : g.child /\ g.id = << f.id[1], f.id[2] - 1 >>

Quiet == ~ContinuationDue

noteRequest(o, id, url) ==
  [ o EXCEPT !.requests = Append(o.requests, [ id |-> id, url |-> url ]) ]

noteWritten(o, path) == [ o EXCEPT !.written = o.written \cup { path } ]

noteUnlink(o, path, ok) ==
  [ o EXCEPT !.unlinks = o.unlinks \cup { [ path |-> path, ok |-> ok ] } ]

(***************************************************************************)
(* The loop over the URLs (lines 603-615) and the success result           *)
(***************************************************************************)
\* line 605 on a prompt that is undefined throws the TypeError
LoopThrow ==
  /\ pc = "loop"
  /\ gen.i < Len(gen.urls)
  /\ gen.prompt = <<>>
  /\ Finish(catchError(PromptTypeError))
  /\ UNCHANGED << server, apiToken, files, call, gen, frames, obs, fnIn, fnOut >>

\* lines 604-608: name the output, call downloadAndCompressImage, await it
LoopNext ==
  /\ pc = "loop"
  /\ gen.i < Len(gen.urls)
  /\ gen.prompt # <<>>
  /\ \E nameTime \in Timestamps :
       /\ freshTokens # {}
       /\ LET url == gen.urls[gen.i + 1]
              baseFilename == generateFilenameFromPrompt(gen.prompt[1], gen.i, nameTime)
              id == << gen.i + 1, 1 >>
          IN  /\ frames' = frames \cup
                    { newFrame(id, url, baseFilename, gen.quality, freshToken) }
              /\ obs' = noteRequest(obs, id, url)
              /\ gen' = [ gen EXCEPT
                           !.filenames = Append(gen.filenames, baseFilename \o ".jpg") ]
  /\ pc' = "await"
  /\ UNCHANGED << server, apiToken, files, call, result, fnIn, fnOut >>

\* lines 609-614: one entry of `results`
resultEntry(f) ==
  [ path |-> pathStr(f.final),
    original_size |-> formatKB(f.originalSize),
    compressed_size |-> formatKB(f.compressedSize),
    saved |-> formatPercent(savedPercent(f.originalSize, f.compressedSize)) ]

\* (pushResult as results.unshift(entry))
pushResultFront(results, entry) == << entry >> \o results

\* results.push(entry)
pushResult(results, entry) == Append(results, entry)

\* (AwaitDone with the failure of one URL swallowed: the loop goes on)
AwaitDoneSwallow ==
  /\ pc = "await"
  /\ \E f \in frames :
       /\ f.id = << gen.i + 1, 1 >>
       /\ Settled(f)
       /\ frames' = { g \in frames : ~Settled(g) \/ Lingering(g) }
       /\ gen' = [ gen EXCEPT
                    !.results = IF f.st = "returned"
                                THEN pushResult(gen.results, resultEntry(f))
                                ELSE gen.results,
                    !.i = gen.i + 1 ]
       /\ pc' = "loop"
       /\ result' = result
  /\ UNCHANGED << server, apiToken, files, call, obs, fnIn, fnOut >>

\* (AwaitDone that does not wait for the invocation to return: it goes on
\* as soon as the download is over)
AwaitDoneEarly ==
  /\ pc = "await"
  /\ \E f \in frames :
       /\ f.id = << gen.i + 1, 1 >>
       /\ f.st = "compressing"
       /\ gen' = [ gen EXCEPT !.results = pushResult(gen.results, resultEntry(f)),
                              !.i = gen.i + 1 ]
  /\ pc' = "loop"
  /\ UNCHANGED << server, apiToken, files, call, frames, result, obs, fnIn, fnOut >>

\* The awaited invocation returned or threw.  An invocation that threw stays
\* on record as the one the call ended on.
AwaitDone ==
  /\ pc = "await"
  /\ \E f \in frames :
       /\ f.id = << gen.i + 1, 1 >>
       /\ Settled(f)
       /\ frames' = { g \in frames : \/ ~Settled(g) \/ Lingering(g)
                                      \/ (g = f /\ f.st = "threw") }
       /\ IF f.st = "returned"
          THEN /\ gen' = [ gen EXCEPT !.results = pushResult(gen.results, resultEntry(f)),
                                      !.i = gen.i + 1 ]
               /\ pc' = "loop"
               /\ result' = result
          ELSE /\ Finish(catchError(f.err))
               /\ gen' = gen
  /\ UNCHANGED << server, apiToken, files, call, obs, fnIn, fnOut >>

\* lines 617-640
successResult ==
  returned(
    [ success |-> TRUE,
      message |-> << "Generated ", ToString(Len(gen.results)), " image(s)" >>,
      images |-> gen.results,
      prompt |-> gen.prompt,
      model |-> [ key |-> gen.model, name |-> modelLookup(gen.model).name,
                  cost_per_image |-> modelLookup(gen.model).cost ],
      settings |-> [ compression_quality |-> gen.quality,
                     had_reference_image |-> gen.hadReference ] ])

LoopEnd ==
  /\ pc = "loop"
  /\ gen.i = Len(gen.urls)
  /\ Finish(successResult)
  /\ UNCHANGED << server, apiToken, files, call, gen, frames, obs, fnIn, fnOut >>

(***************************************************************************)
(* The events of one invocation                                            *)
(***************************************************************************)
\* (followsRedirect with a limit of one hop)
followsRedirectOnce(f, resp) ==
  resp.status \in { 301, 302 } /\ resp.location # <<>> /\ f.id[2] < 2

\* lines 295-297: invocation f takes the response as a redirect to follow;
\* nothing of f, such as how many hops led to it, enters the test
followsRedirect(f, resp) ==
  resp.status \in { 301, 302 } /\ resp.location # <<>>

\* the response has arrived at invocation f
responded(f, resp) ==
  [ f EXCEPT !.req = "responded", !.status = resp.status, !.location = resp.location ]

\* The response callback (lines 294-322), on a 301/302 with a Location
\* header: the whole function is invoked again for the new URL.
ResponseRedirect ==
  \E f \in frames, resp \in Responses :
    /\ Quiet
    /\ f.req = "sent"
    /\ followsRedirect(f, resp)
    /\ f.id[2] < MaxDepth
    /\ freshTokens # {}
    /\ LET id == << f.id[1], f.id[2] + 1 >>
           invoked == newFrame(id, resp.location[1], f.base, f.quality, freshToken)
       IN  /\ frames' = (frames \ { f }) \cup
                          { [ f EXCEPT !.req = "responded", !.child = TRUE,
                                       !.location = resp.location ], invoked }
           /\ obs' = noteRequest(obs, id, resp.location[1])
    /\ UNCHANGED << server, apiToken, files, pc, call, gen, result, fnIn, fnOut >>

\* The response callback on any other status than 200 (lines 305-308)
ResponseFailure ==
  \E f \in frames, resp \in Responses :
    /\ Quiet
    /\ f.req = "sent"
    /\ ~followsRedirect(f, resp)
    /\ resp.status # 200
    /\ frames' = Replace(f, reject(responded(f, resp), HttpStatusError(resp.status)))
    /\ UNCHANGED << server, apiToken, files, pc, call, gen, result, obs, fnIn, fnOut >>

\* The response callback on 200 (lines 310-311): the temporary file is opened
\* for writing and the body piped into it.
ResponseOk ==
  \E f \in frames, resp \in Responses :
    /\ Quiet
    /\ f.req = "sent"
    /\ resp.status = 200
    /\ files' = writeFile(files, f.temp, Content("raw", 0, FALSE, f.url))
    /\ obs' = noteWritten(obs, f.temp)
    /\ frames' = Replace(f, [ responded(f, resp) EXCEPT !.stream = "open",
                                                        !.body = resp.body ])
    /\ UNCHANGED << server, apiToken, pc, call, gen, result, fnIn, fnOut >>

\* fileStream "finish" (lines 313-316): the whole body is in the file.  The
\* event can come after the request failed or was destroyed, when the body
\* had arrived in full by then: resolve() is then without effect.
StreamFinish ==
  \E f \in frames :
    /\ Quiet
    /\ f.stream = "open"
    /\ files' = writeFile(files, f.temp,
                          Content("raw", f.body.size, f.body.valid, f.url))
    /\ obs' = noteWritten(obs, f.temp)
    /\ frames' = Replace(f, resolve([ f EXCEPT !.stream = "finished" ]))
    /\ UNCHANGED << server, apiToken, pc, call, gen, result, fnIn, fnOut >>

\* (StreamError where a failed deletion becomes the error of the download)
StreamErrorUnlinkThrows ==
  \E f \in frames, unlinked \in BOOLEAN :
    /\ Quiet
    /\ f.stream = "open"
    /\ files' = IF unlinked THEN unlink(files, f.temp) ELSE files
    /\ obs' = noteUnlink(obs, f.temp, unlinked)
    /\ frames' = Replace(f, reject([ f EXCEPT !.stream = "errored" ],
                                   IF unlinked THEN StreamWriteError
                                   ELSE << "EPERM: operation not permitted, unlink" >>))
    /\ UNCHANGED << server, apiToken, pc, call, gen, result, fnIn, fnOut >>

\* fileStream "error" (lines 318-321): fs.unlink(tempPath, () => {}), whose
\* failure the empty callback ignores, then reject(err)
StreamError ==
  \E f \in frames, unlinked \in BOOLEAN :
    /\ Quiet
    /\ f.stream = "open"
    /\ files' = IF unlinked THEN unlink(files, f.temp) ELSE files
    /\ obs' = noteUnlink(obs, f.temp, unlinked)
    /\ frames' = Replace(f, reject([ f EXCEPT !.stream = "errored" ], StreamWriteError))
    /\ UNCHANGED << server, apiToken, pc, call, gen, result, fnIn, fnOut >>

\* request "error" (line 324): a connection error, or the socket error that
\* follows request.destroy()
RequestError ==
  \E f \in frames :
    /\ Quiet
    /\ \/ Live(f) /\ f.req \in { "sent", "responded" }
       \/ f.req = "destroyed"
    /\ frames' = Replace(f, reject([ f EXCEPT !.req = IF f.req = "destroyed"
                                                      THEN "closed" ELSE "failed" ],
                                   ConnectionError))
    /\ UNCHANGED << server, apiToken, files, pc, call, gen, result, obs, fnIn, fnOut >>

\* the request's timeout (lines 325-328): destroy the request, reject
Timeout ==
  \E f \in frames :
    /\ Quiet
    /\ Live(f)
    /\ f.req \in { "sent", "responded" }
    /\ frames' = Replace(f, reject([ f EXCEPT !.req = "destroyed" ], TimeoutError))
    /\ UNCHANGED << server, apiToken, files, pc, call, gen, result, obs, fnIn, fnOut >>

\* lines 298-300: the invocation made on a redirect returned or threw
ChildSettled ==
  \E f \in frames, c \in frames :
    /\ f.child
    /\ c.id = << f.id[1], f.id[2] + 1 >>
    /\ Settled(c)
    /\ LET g == [ f EXCEPT !.child = FALSE ]
       IN  frames' = (frames \ { f, c }) \cup
                       { IF c.st = "returned" THEN resolve(g) ELSE reject(g, c.err) }
    /\ UNCHANGED << server, apiToken, files, pc, call, gen, result, obs, fnIn, fnOut >>

\* The download promise is settled: a rejection is thrown on; otherwise
\* lines 331-338, fs.statSync(tempPath) and the start of the compression.
afterDownload(f) ==
  IF f.promise = "rejected" THEN [ f EXCEPT !.st = "threw" ]
  ELSE IF ~exists(f.temp) THEN [ f EXCEPT !.st = "threw", !.err = StatError(f.temp) ]
  ELSE [ f EXCEPT !.st = "compressing", !.originalSize = files[f.temp].size ]

Continue ==
  \E f \in frames :
    /\ f.st = "downloading"
    /\ f.promise # "pending"
    /\ frames' = Replace(f, afterDownload(f))
    /\ UNCHANGED << server, apiToken, files, pc, call, gen, result, obs, fnIn, fnOut >>

\* sharp(tempPath)...toFile(finalPath) rejects (lines 336-338): the function
\* throws from there
CompressFail ==
  \E f \in frames :
    /\ Quiet
    /\ f.st = "compressing"
    /\ ~exists(f.temp) \/ ~files[f.temp].valid
    /\ frames' = Replace(f, [ f EXCEPT !.st = "threw",
                                       !.err = IF exists(f.temp) THEN SharpInputError
                                               ELSE SharpMissingError(f.temp) ])
    /\ UNCHANGED << server, apiToken, files, pc, call, gen, result, obs, fnIn, fnOut >>

\* the file system after lines 336-341 succeeded: the JPEG is at finalPath
\* and the temporary file is removed
afterCompress(f) ==
  unlink(writeFile(files, f.final,
                   jpegOf(f.temp, encodedSize(files[f.temp].size, f.quality))),
         f.temp)

\* sharp's toFile resolves; lines 340-353
CompressDone ==
  \E f \in frames :
    /\ Quiet
    /\ f.st = "compressing"
    /\ exists(f.temp) /\ files[f.temp].valid
    /\ files' = afterCompress(f)
    /\ obs' = noteWritten(obs, f.final)
    /\ frames' = Replace(f, [ f EXCEPT !.st = "returned",
                                       !.compressedSize = files'[f.final].size ])
    /\ UNCHANGED << server, apiToken, pc, call, gen, result, fnIn, fnOut >>

(***************************************************************************)
(* The server                                                              *)
(***************************************************************************)
Next ==
  \/ Main
  \/ CallListModels
  \/ CallGetOutputDirectory
  \/ CallListGeneratedImages
  \/ CallUnknownTool
  \/ CallGetImageInfo
  \/ CallCompressImage
  \/ CallGenerateImage
  \/ BackendReturn
  \/ BackendFail
  \/ LoopThrow
  \/ LoopNext
  \/ AwaitDone
  \/ LoopEnd
  \/ ResponseRedirect
  \/ ResponseFailure
  \/ ResponseOk
  \/ StreamFinish
  \/ StreamError
  \/ RequestError
  \/ Timeout
  \/ ChildSettled
  \/ Continue
  \/ CompressFail
  \/ CompressDone

Spec == Init /\ [][Next]_vars

(***************************************************************************)
(* generateFilenameFromPrompt on its own: SpecFn draws a prompt and an     *)
(* index, and Derive applies the function at the time the clock shows.     *)
(***************************************************************************)
\* what the prompts of SpecFn are put together from
Pieces ==
  { << "C", "a", "t", " " >>,
    << "t", "h", "e", "\t" >>,
    << "i", "t", "'", "s", "!" >>,
    << "a", "-", "c", "_", "1", "0", "0" >>,
    << "H", "a", "t" >> }

RECURSIVE concat(_)
concat(pieces) == IF pieces = <<>> THEN <<>> ELSE Head(pieces) \o concat(Tail(pieces))

IndexInputs == { 0, 1 }

InitFn ==
  /\ server = "starting"
  /\ apiToken = TRUE
  /\ files = InitialFiles
  /\ pc = "idle"
  /\ call = NoCall
  /\ gen = NoGen
  /\ frames = {}
  /\ result = NoResult
  /\ obs = NoObs
  /\ \E pieces \in SeqsUpTo(Pieces, MaxPieces), index \in IndexInputs :
       fnIn = [ set |-> TRUE, prompt |-> concat(pieces), index |-> index ]
  /\ fnOut = NoOut

Derive ==
  /\ fnIn.set
  /\ fnOut = NoOut
  /\ \E timestamp \in Timestamps :
       fnOut' = [ timestamp |-> timestamp,
                  name |-> generateFilenameFromPrompt(fnIn.prompt, fnIn.index, timestamp) ]
  /\ UNCHANGED << server, apiToken, files, pc, call, gen, frames, result, obs, fnIn >>

NextFn == Derive

SpecFn == InitFn /\ [][NextFn]_vars

(***************************************************************************)
(* Two generate_image calls naming their files in the same output          *)
(* directory: each is at some iteration of the loop of lines 603-615 and   *)
(* takes its names at its own moment (lines 605-606 and 286-288).          *)
(***************************************************************************)
MaxPairPieces == 2

PairPieces ==
  { << "C", "a", "t", " " >>,
    << "1", "0", "0", " " >>,
    << "t", "e", "m", "p", " " >> }

\* values of `${Date.now()}_${Math.random().toString(36).slice(2)}` the two
\* calls may draw
PairTokens == { "100_100", "101_k3x" }

NoNames == [ timestamp |-> 0, name |-> "", final |-> EmptyPath, temp |-> EmptyPath ]

InitPair ==
  /\ server = "starting"
  /\ apiToken = TRUE
  /\ files = InitialFiles
  /\ pc = "idle"
  /\ call = NoCall
  /\ gen = NoGen
  /\ frames = {}
  /\ result = NoResult
  /\ obs = NoObs
  /\ \E p1, p2 \in SeqsUpTo(PairPieces, MaxPairPieces), i1, i2 \in IndexInputs :
       fnIn = [ set |-> TRUE,
                calls |-> << [ prompt |-> concat(p1), index |-> i1 ],
                             [ prompt |-> concat(p2), index |-> i2 ] >> ]
  /\ fnOut = << NoNames, NoNames >>

\* lines 605-606, then lines 286-288 of the invocation these start
NameCall(k) ==
  /\ fnIn.set
  /\ fnOut[k] = NoNames
  /\ \E timestamp \in Timestamps, token \in PairTokens :
       LET baseFilename ==
             generateFilenameFromPrompt(fnIn.calls[k].prompt, fnIn.calls[k].index,
                                        timestamp)
       IN  fnOut' = [ fnOut EXCEPT ![k] =
                        [ timestamp |-> timestamp,
                          name |-> baseFilename,
                          final |-> outputPath(baseFilename, ".jpg"),
                          temp |-> outputPath(tempFilename(token), "") ] ]
  /\ UNCHANGED << server, apiToken, files, pc, call, gen, frames, result, obs, fnIn >>

NextPair == \E k \in { 1, 2 } : NameCall(k)

SpecPair == InitPair /\ [][NextPair]_vars

(***************************************************************************)
(* Properties                                                              *)
(***************************************************************************)
Done == pc = "done"
Generating == call.name = "generate_image" /\ call.hasArgs
Failed == Done /\ result.isError
ErrorMentions(fragment) == Failed /\ Mentions(result.text.error, fragment)
requestedModel == WithDefault(call.args.model, DEFAULT_MODEL)
referenceGiven ==
  Truthy(<< pathStr(WithDefault(call.args.reference_image, EmptyPath)) >>)
ToolNames ==
  { "generate_image", "compress_image", "get_image_info", "list_models",
    "list_generated_images", "get_output_directory" }

\* the file a result entry names holds the JPEG made from `url`
EntryHoldsJpegOf(entry, url) ==
  \E p \in DOMAIN files :
    /\ pathStr(p) = entry.path
    /\ files[p].fmt = "jpeg" /\ files[p].src = url
    /\ formatKB(files[p].size) = entry.compressed_size

\* C1: every tool call that has ended has returned a result with an isError
\* flag and a document; the result is flagged exactly when its document is
\* {success: false, error: <non-empty message>}; and a call of an unknown
\* tool, a call without the arguments its tool reads, and a generate_image
\* call that did not process every URL are such failures.
C1_FailuresReturnErrorResult ==
  Done =>
    /\ DOMAIN result = { "isError", "text" }
    /\ result.isError <=>
         /\ "success" \in DOMAIN result.text
         /\ result.text.success = FALSE
    /\ result.isError =>
         /\ DOMAIN result.text = { "success", "error" }
         /\ result.text.error # <<>>
    /\ call.name \notin ToolNames => result.isError
    /\ (call.name \in { "generate_image", "compress_image", "get_image_info" }
          /\ ~call.hasArgs) => result.isError
    /\ (gen # NoGen /\ Len(gen.results) < Len(gen.urls)) => result.isError

\* C1 witness: a generate_image call ended by a network failure
C1_Witness == Generating /\ ErrorMentions("Download timeout")

\* C2: once an invocation of downloadAndCompressImage whose download
\* finished has returned or thrown, its temporary file does not exist.
C2_TempFileDeleted ==
  \A f \in frames : (Settled(f) /\ f.stream = "finished") => ~exists(f.temp)

\* C3: an invocation whose request was redirected, and whose redirected
\* download and compression succeeded, does not throw: it returns the result
\* for the final file.
C3_RedirectSucceeds ==
  \A f \in frames :
    (f.req = "responded" /\ f.stream = "none" /\ f.promise = "resolved")
      => f.st # "threw"

\* C4: when generate_image succeeds, images has one entry per URL of the
\* backend's output (one entry for an output that is not an array), and the
\* file entry k names holds the JPEG made from the k-th URL.
C4_OneEntryPerUrlInOrder ==
  (Done /\ Generating /\ ~result.isError) =>
    LET output == gen.output[1]
        expected == IF output.isArray THEN Len(output.items) ELSE 1
        images == result.text.images
    IN  /\ Len(images) = expected
        /\ \A k \in 1..expected : EntryHoldsJpegOf(images[k], output.items[k])

\* C4 witness: a success with two different URLs
C4_Witness ==
  /\ Done /\ Generating /\ ~result.isError
  /\ Len(result.text.images) = 2
  /\ gen.urls[1] # gen.urls[2]

\* C5: when the processing of the k-th URL has failed, the call, once ended,
\* has failed (success: false); no request is ever made for a URL after the
\* k-th; and the final files of the URLs before the k-th stay as they were
\* written.
C5_FailureAbortsWithoutRollback ==
  LET k == gen.i + 1
      kthFailed ==
        \/ pc = "await" /\ \E f \in frames : f.id = << k, 1 >> /\ f.st = "threw"
        \/ Done /\ Len(gen.results) < Len(gen.urls)
  IN  (gen # NoGen /\ kthFailed) =>
        /\ Done => (result.isError /\ result.text.success = FALSE)
        /\ \A n \in DOMAIN obs.requests : obs.requests[n].id[1] <= k
        /\ \A j \in 1..Len(gen.results) : EntryHoldsJpegOf(gen.results[j], gen.urls[j])

\* C5 witness: the second of two URLs failed after the first was saved
C5_Witness ==
  /\ gen # NoGen /\ Failed
  /\ Len(gen.urls) = 2 /\ Len(gen.results) = 1
  /\ Len(obs.requests) >= 2

\* C6: a generate_image call whose model key is not in the registry ends at
\* once with isError set and an error mentioning "Unknown model"; the backend
\* is not invoked, the credential is not read, no reference image is read,
\* no file is written.
C6_UnknownModelRejected ==
  (Generating /\ requestedModel \notin RegistryKeys) =>
    /\ ErrorMentions("Unknown model")
    /\ obs = NoObs

\* C7: a generate_image call with a reference image set and a registry model
\* that does not support reference images (every model but flux-redux and
\* nano-banana-pro; imagen-3 when no model is given) ends with success: false
\* and an error mentioning "does not support reference images"; the reference
\* file is not read, the backend is not invoked.
C7_ReferenceImageRejected ==
  /\ { key \in RegistryKeys : MODELS[key].supportsReferenceImage }
       = { "flux-redux", "nano-banana-pro" }
  /\ (/\ Generating /\ referenceGiven
      /\ requestedModel \in RegistryKeys
      /\ ~MODELS[requestedModel].supportsReferenceImage) =>
       /\ ErrorMentions(" does not support reference images")
       /\ result.text.success = FALSE
       /\ obs.refReads = <<>>
       /\ obs.backendCalls = <<>>

\* C7 witness: the default model, with an existing reference image
C7_Witness ==
  /\ Generating /\ Failed
  /\ call.args.model = <<>>
  /\ call.args.reference_image = << RefPng >>

\* C8: the file names one generate_image request has assigned are pairwise
\* distinct, whatever the clock returned for each.
C8_FilenamesDistinct ==
  gen # NoGen =>
    \A j, k \in DOMAIN gen.filenames : j # k => gen.filenames[j] # gen.filenames[k]

\* C8 witness: two names derived in the same millisecond
C8_Witness ==
  /\ gen # NoGen
  /\ gen.filenames = << "cat_100.jpg", "cat_100_2.jpg" >>

\* C9 as claimed: without the credential the server does not reach the
\* running state.
C9_NoTokenNoStart == ~apiToken => server # "running"

\* C9 as amended: without the credential the server runs, and every
\* generate_image call ends at once with isError set and success: false,
\* without invoking the backend or writing a file; a call that passes the
\* model lookup and the reference-image check fails with the
\* REPLICATE_API_TOKEN message.
C9_NoTokenFailsPerCall ==
  (~apiToken /\ call.name = "generate_image") =>
    /\ Failed
    /\ result.text.success = FALSE
    /\ obs.backendCalls = <<>> /\ obs.requests = <<>> /\ obs.written = {}
    /\ (/\ call.hasArgs
        /\ modelLookupTruthy(requestedModel)
        /\ ~(referenceGiven /\ ~modelLookup(requestedModel).supportsReferenceImage))
         => result.text.error = TokenRequiredError

\* C9 witness: the server runs without the credential and has refused a call
C9_Witness ==
  /\ ~apiToken /\ server = "running"
  /\ Generating /\ ErrorMentions("REPLICATE_API_TOKEN environment variable is required. ")

\* C10: generateFilenameFromPrompt returns a non-empty string; when no word
\* of the prompt survives the filter and index is 0, it returns
\* "image_<timestamp>".
C10_NeverEmptyAndFallback ==
  fnOut # NoOut =>
    /\ fnOut.name # ""
    /\ (filterWords(split(normalize(fnIn.prompt))) = <<>> /\ fnIn.index = 0)
         => fnOut.name = "image_" \o ToString(fnOut.timestamp)

\* C10 witness: a prompt of stop words, short words and punctuation only
C10_Witness ==
  /\ fnIn.set /\ fnIn.index = 0
  /\ Len(fnIn.prompt) > 4
  /\ filterWords(split(normalize(fnIn.prompt))) = <<>>
  /\ fnOut.name = "image_100"

resolvedOutput ==
  IF Truthy(<< pathStr(WithDefault(call.args.output_path, EmptyPath)) >>)
  THEN call.args.output_path[1]
  ELSE Path(call.args.input_path[1].dir,
            call.args.input_path[1].base \o "_compressed", ".jpg")

\* C11: a compress_image or get_image_info call whose path names no file ends
\* with isError set, success: false and an error mentioning "not found", and
\* the compress_image call leaves the file system as it was: no file is
\* created at the output path.
C11_MissingPathNotFound ==
  /\ (/\ Done /\ call.name = "compress_image" /\ call.hasArgs
      /\ call.args.input_path # <<>>
      /\ call.args.input_path[1] \notin DOMAIN InitialFiles) =>
       /\ ErrorMentions("not found")
       /\ result.text.success = FALSE
       /\ files \in { InitialFiles, EarlierFiles }
       /\ (resolvedOutput \in DOMAIN files => resolvedOutput \in DOMAIN InitialFiles)
  /\ (/\ Done /\ call.name = "get_image_info" /\ call.hasArgs
      /\ call.args.image_path # <<>>
      /\ call.args.image_path[1] \notin DOMAIN InitialFiles) =>
       /\ ErrorMentions("not found")
       /\ result.text.success = FALSE

\* C11 witness: compress_image of a missing file, with an output path given
C11_Witness ==
  /\ Failed /\ call.name = "compress_image"
  /\ call.args.input_path = << MissingJpg >>
  /\ call.args.output_path = << Path("/in", "small", ".jpg") >>
  /\ Path("/in", "small", ".jpg") \notin DOMAIN files

C13_NumOutputsClamped ==
  (Generating /\ obs.backendCalls # <<>>) =>
    LET sent == obs.backendCalls[1].input.num_outputs
        given == call.args.num_outputs
    IN  /\ Len(obs.backendCalls) = 1
        /\ sent \in 1..4
        /\ given = <<>> => sent = 1
        /\ given # <<>> =>
             /\ given[1] \in 1..4 => sent = given[1]
             /\ given[1] < 1 => sent = 1
             /\ given[1] > 4 => sent = 4

\* C13 witness: a negative num_outputs reached the backend as 1
C13_Witness ==
  /\ Generating /\ obs.backendCalls # <<>>
  /\ call.args.num_outputs = << -2 >>
  /\ obs.backendCalls[1].input.num_outputs = 1

\* the files of the output directory whose name ends in an image extension
imageFiles ==
  { f \in DOMAIN files :
      /\ f.dir = OUTPUT_DIR
      /\ f.ext \in { ".png", ".jpg", ".jpeg", ".webp", ".gif",
                     ".PNG", ".JPG", ".JPEG", ".WEBP", ".GIF" } }

\* C14: list_generated_images returns one entry, with its filename and its
\* full path, for each file of the output directory whose name ends in .png,
\* .jpg, .jpeg, .webp or .gif in either case, and for no other file (so for
\* no temp_ file); no entry is created before an entry that follows it; and
\* image_count is the number of entries.
C14_ListsImagesNewestFirst ==
  (Done /\ call.name = "list_generated_images") =>
    LET images == result.text.images
    IN  /\ ~result.isError
        /\ result.text.image_count = Len(images)
        /\ Len(images) = Cardinality(imageFiles)
        /\ \A f \in imageFiles :
             \E k \in DOMAIN images :
               /\ images[k].filename = f.base \o f.ext
               /\ images[k].path = OUTPUT_DIR \o "/" \o f.base \o f.ext
               /\ images[k].created = files[f].birthtime
        /\ \A j, k \in DOMAIN images : j < k => images[j].created >= images[k].created

\* C14 witness: three images listed, the newest first, beside a temporary
\* file and a file of another extension that are not
C14_Witness ==
  /\ Done /\ call.name = "list_generated_images"
  /\ Len(result.text.images) = 3
  /\ result.text.images[1].filename = "dog_150.PNG"
  /\ result.text.images[3].created < result.text.images[1].created
  /\ Path(OUTPUT_DIR, "temp_100_k3x", "") \in DOMAIN files
  /\ Path(OUTPUT_DIR, "cat_100.jpg", ".bak") \in DOMAIN files

\* the handler has ended on the failure of invocation f, the one it awaited
EndedOn(f) == OnRecord(f)

\* C15 (for a connection error or the timeout while the body is streamed):
\* once an invocation that had opened its temporary file has thrown because
\* the request failed or timed out, the temporary file does not exist.
C15_PartialFileRemoved ==
  \A f \in frames :
    (/\ f.st = "threw"
     /\ f.stream = "open"
     /\ f.req \in { "failed", "destroyed", "closed" }) => ~exists(f.temp)

\* C16: when the file stream of a pending download raised an error, the
\* deletion of the temporary file was attempted; whether it removed the file
\* or failed, the download is rejected with the stream's error, the
\* invocation does not return, and the call it belongs to ends with that
\* error.
C16_StreamErrorPropagates ==
  \A f \in frames :
    (f.stream = "errored" /\ f.req = "responded") =>
      /\ f.promise = "rejected" /\ f.err = StreamWriteError
      /\ f.st \in { "downloading", "threw" }
      /\ \E u \in obs.unlinks : u.path = f.temp /\ (u.ok \/ exists(f.temp))
      /\ EndedOn(f) => (Failed /\ result.text.error = StreamWriteError)

\* C16 witness: the call ended with the stream's error although the deletion
\* failed and the partial file is still there
C16_Witness ==
  /\ Failed /\ result.text.error = StreamWriteError
  /\ \E f \in frames :
       /\ f.stream = "errored" /\ f.st = "threw"
       /\ [ path |-> f.temp, ok |-> FALSE ] \in obs.unlinks
       /\ exists(f.temp)

\* C17: once the timeout of an invocation has fired, its request is
\* destroyed and its download is rejected with "Download timeout"; that
\* stays so whatever arrives afterwards (the socket error of the abort, a
\* finish or an error of the file stream); the invocation never returns, and
\* the call that awaited it ends with the timeout error.
C17_TimeoutIsFinal ==
  \A f \in frames :
    f.req \in { "destroyed", "closed" } =>
      /\ f.promise = "rejected" /\ f.err = TimeoutError
      /\ f.st \in { "downloading", "threw" }
      /\ EndedOn(f) => ErrorMentions("Download timeout")

\* C17 witness: after the timeout fired during streaming, the socket error
\* of the abort and the finish of the file stream both arrived
C17_Witness ==
  /\ ErrorMentions("Download timeout")
  /\ \E f \in frames :
       /\ EndedOn(f)
       /\ f.req = "closed" /\ f.stream = "finished" /\ f.st = "threw"

\* C18: an invocation whose response had a status outside 200..299 and was
\* not a 301/302 with a Location header (so also a 302 without one) is
\* rejected with the error "Failed to download image: HTTP
\* <status>"; it opened no file stream and there is no file at its temporary
\* path; and the call that awaited it ends with that error.
C18_BadStatusFails ==
  \A f \in frames :
    (/\ f.status # 0
     /\ f.status \notin 200..299
     /\ ~(f.status \in { 301, 302 } /\ f.location # <<>>)) =>
      /\ f.promise = "rejected"
      /\ f.err = << "Failed to download image: HTTP ", ToString(f.status) >>
      /\ f.st \in { "downloading", "threw" }
      /\ f.stream = "none"
      /\ ~exists(f.temp)
      /\ EndedOn(f) => (Failed /\ result.text.error = f.err)

\* C18 witness: the call ended on a 302 that had no Location header
C18_Witness ==
  /\ Failed
  /\ \E f \in frames :
       /\ EndedOn(f) /\ f.status = 302 /\ f.location = <<>>
       /\ result.text.error = << "Failed to download image: HTTP ", "302" >>

\* C19: the URLs are processed one at a time, in order.  The requests made
\* for URLs come in the order of the URLs, and none is made for a URL after
\* the one being processed; every invocation there is belongs to the URL
\* being processed; and whenever the loop is about to take the next URL, no
\* invocation is left, every URL before has its entry and its JPEG, and no
\* temporary file written by the call exists.
C19_OneUrlAtATime ==
  gen # NoGen =>
    /\ Len(gen.results) = gen.i
    /\ \A n \in DOMAIN obs.requests :
         LET r == obs.requests[n]
         IN  /\ r.id[1] <= gen.i + 1
             /\ r.id[1] = gen.i + 1 => pc \in { "await", "done" }
             /\ \A m \in 1..(n - 1) : obs.requests[m].id[1] <= r.id[1]
    /\ \A f \in frames : f.id[1] = gen.i + 1
    /\ \A j \in 1..gen.i : EntryHoldsJpegOf(gen.results[j], gen.urls[j])
    /\ pc = "loop" =>
         /\ frames = {}
         /\ \A p \in obs.written : p.ext = "" => ~exists(p)

\* C19 witness: the request for the second URL is out, after the first URL
\* was downloaded, compressed and its temporary file deleted
C19_Witness ==
  /\ gen # NoGen /\ pc = "await" /\ gen.i = 1
  /\ Len(obs.requests) = 2 /\ obs.requests[2].id = << 2, 1 >>
  /\ \E p \in obs.written : p.ext = "" /\ ~exists(p)
  /\ \E f \in frames : f.id = << 2, 1 >> /\ f.req = "sent"

C22_NothingInFlightAfterReturn ==
  (Done /\ gen # NoGen) => \A f \in frames : Settled(f)

\* the slug a prompt derives to (line 219)
slugOf(prompt) == join(promptWords(prompt), "_")
Named(k) == fnOut[k] # NoNames

\* C21: two generate_image calls get the same final path only when their
\* prompts derive to the same slug and they took the same timestamp at the
\* same output index; and the temporary path of either is none of the final
\* paths.
C21_SameNameOnlySameSlugTimeIndex ==
  /\ (Named(1) /\ Named(2) /\ pathStr(fnOut[1].final) = pathStr(fnOut[2].final))
       => /\ slugOf(fnIn.calls[1].prompt) = slugOf(fnIn.calls[2].prompt)
          /\ fnOut[1].timestamp = fnOut[2].timestamp
          /\ fnIn.calls[1].index = fnIn.calls[2].index
  /\ \A j, k \in { 1, 2 } :
       (Named(j) /\ Named(k)) => pathStr(fnOut[j].temp) # pathStr(fnOut[k].final)

\* both calls have taken the same final path, from one slug, timestamp and
\* index; the slug ends in the digits of a timestamp, and the temporary name
\* of the second call is that final name without its extension
C21_Witness ==
  /\ Named(1) /\ Named(2)
  /\ pathStr(fnOut[1].final) = pathStr(fnOut[2].final)
  /\ fnOut[1].name = "temp_100_100"
  /\ fnOut[2].temp.base = "temp_100_100"
  /\ fnOut[1].temp # fnOut[2].temp

\* the tokens of the lowercased, punctuation-stripped prompt, and those of
\* them that are longer than 2 characters and no stop words
promptTokens == split(normalize(fnIn.prompt))
Survives(word) == Len(word) > 2 /\ word \notin stopWords
survivors == SelectSeq(promptTokens, Survives)

====
